---- MODULE Spec2Model ----
(***************************************************************************)
(* DevLens interception proxy (proxy/server.ts, proxy/certificate.ts) and  *)
(* the CLI's process-level exception handling (cli/index.ts).              *)
(*                                                                         *)
(* Node runs every handler to completion on one thread, so each handler    *)
(* or callback of ProxyServer is one atomic action.  The environment       *)
(* (clients, upstream servers, the file system, openssl) supplies the      *)
(* inputs and decides which callback fires next.                           *)
(***************************************************************************)
EXTENDS Integers, Sequences, FiniteSets, TLC

\* ---------------------------------------------------------------- bounds
MaxReq == 2         \* exchanges (ids) issued in one run
MaxChunks == 1      \* chunks of data received in one run: 'data' events of
                    \* request and response bodies, chunks relayed by tunnels
MaxCalls == 3       \* direct calls of generateCACert and generateHostCert

\* ---------------------------------------------------------------- values
NULL == "null"
CAPair == "ca"                      \* { key, cert } of the root CA in memory
Hosts == {"a.com"}
Statuses == {200, 404}              \* status codes an upstream answers with
DefaultHttpPort == 80

\* A request URL as the client sent it: scheme "" is a relative reference,
\* port 0 means that no port is written in the URL.
URLs ==
  { [scheme |-> "http", host |-> "a.com", port |-> 0,    path |-> "/a"],
    [scheme |-> "http", host |-> "a.com", port |-> 8081, path |-> "/a"],
    [scheme |-> "",     host |-> "",      port |-> 0,    path |-> "/a"] }

NoURL == [scheme |-> "", host |-> "", port |-> 0, path |-> ""]
NoUpstream == [host |-> "", port |-> 0, path |-> "", body |-> 0]

\* ---------------------------------------------------------------- helpers
Has(s, t) == \E i \in DOMAIN s : s[i] = t

Count(s, t) == Cardinality({i \in DOMAIN s : s[i] = t})

\* every occurrence of t in s comes after an occurrence of u
After(s, t, u) == \A i \in DOMAIN s : s[i] = t => \E j \in 1..(i - 1) : s[j] = u

\* the pairs <<c, i>> with i <= n[c]: as many as the sum of n over 1..len
Units(len, n(_), max) == {p \in (1..len) \X (1..max) : p[2] <= n(p[1])}

\* new URL(url): throws for a relative reference and for an http URL with an
\* empty host
URLParses(u) == u.scheme # "" /\ u.host # ""

\* targetUrl.port || 80
TargetPort(u) == IF u.port = 0 THEN DefaultHttpPort ELSE u.port

VARIABLES
  server,      \* ProxyServer.server: "null" or "listening"
  requestId,   \* ProxyServer.requestId
  caCert,      \* ProxyServer.caCert: NULL or CAPair
  alive,       \* the Node process has not exited
  xs,          \* the exchanges, in order of creation (one per handler call)
  disk,        \* CERT_DIR: a function from the files that exist to their content
  calls,       \* the calls of generateCACert and generateHostCert, in order,
               \* with what each did
  wire,        \* one request body followed byte by byte: the chunks the
               \* client sends, the string the handler builds, the bytes
               \* written to the upstream
  proxyPort,          \* the --proxy-port option: the port the proxy listens on
  connectedDevices,   \* cli: the devices detected at startup
  cleanup,            \* cli: isCleaningUp, the devices cleanup() has still to
                      \* visit, and whether the process is ready, cleaning or
                      \* has exited
  attached,           \* the Android devices adb reaches now
  httpProxy,          \* the global http_proxy setting of each device
  proxyState,         \* server/index.ts: Map<deviceId, boolean>
  toggles,            \* the toggle-proxy handler calls, in order of arrival
  currentLogStreamer, \* server/index.ts: 0 is null, else an index of streamers
  streamers,          \* the LogStreamer objects, in order of creation
  sockets,            \* the dashboard sockets that are connected
  connections,        \* the number of 'connection' events so far
  proxyListeners,     \* the 'request' and 'response' listeners the dashboard
                      \* server has on the proxy instance
  proxyInstance,      \* proxy/server.ts: 0 is null, else an index of instances
  instances,          \* the ProxyServer objects startProxy created
  tls                 \* one MITM session followed request by request: the
                      \* requests its client wrote, the bytes still on their
                      \* way and the 'data' events the TLS socket delivered

\* the variables outside ProxyServer and certificate.ts
outside ==
  <<wire, proxyPort, connectedDevices, cleanup, attached, httpProxy,
    proxyState, toggles, currentLogStreamer, streamers, sockets, connections,
    proxyListeners, proxyInstance, instances>>

\* the variables the handlers of a ProxyServer leave alone
others == <<outside, tls>>

vars == <<server, requestId, caCert, alive, xs, disk, calls, others>>

\* no request body is followed
NoWire == [chunks |-> <<>>, got |-> 0, body |-> <<>>, sent |-> <<>>, pc |-> "off"]

Devices == {"d1", "d2"}

\* `settings put global http_proxy :0`
ProxyOff == [host |-> "", port |-> 0]

\* new Map()
EmptyMap == [d \in {} |-> FALSE]

NoCleanup == [pc |-> "ready", isCleaningUp |-> FALSE, todo |-> {}]

\* the Commander default of --proxy-port
DefaultProxyPort == 8080

NoListeners == [request |-> 0, response |-> 0]

\* no dashboard socket has connected
NoSockets == sockets = {} /\ connections = 0 /\ proxyListeners = NoListeners

\* startProxy was not called
NoInstances == proxyInstance = 0 /\ instances = <<>>

\* no MITM session is followed
NoTls == [conn |-> 0, sent |-> 0, pending |-> <<>>, data |-> <<>>]

\* the CLI and the dashboard server are not running
OthersOff ==
  /\ wire = NoWire
  /\ proxyPort = DefaultProxyPort
  /\ connectedDevices = {}
  /\ cleanup = NoCleanup
  /\ attached = {}
  /\ httpProxy = [d \in Devices |-> ProxyOff]
  /\ proxyState = EmptyMap
  /\ toggles = <<>>
  /\ currentLogStreamer = 0
  /\ streamers = <<>>
  /\ NoSockets
  /\ NoInstances
  /\ tls = NoTls

\* ---------------------------------------------------------------- events
\* this.emit(t, ...) for the exchange x: ev is the sequence of the events
\* emitted with x's id, in the order of emission
Emit(x, t) == [x EXCEPT !.ev = Append(@, t)]

\* faulty variant: the 'request' event is not emitted
EmitRequestDropped(x) == x

\* this.emit('request', request)
EmitRequest(x) == Emit(x, "request")

\* faulty variant: the counter is read without being incremented
NextRequestIdStuck(n) == n

\* `req_${++this.requestId}`: the numeric suffix of the id handed out next
NextRequestId(n) == n + 1

\* ---------------------------------------------------------------- exchanges
\* One record per handler invocation (handleRequest, handleConnect,
\* handleHttpsRequest).  trace is what the handler and its callbacks did to
\* the client and upstream sockets, in order.
NewExchange(id, kind) ==
  [id |-> id, kind |-> kind, pc |-> "reading", url |-> NoURL, host |-> "",
   body |-> 0, response |-> NULL, upstream |-> NoUpstream, status |-> 0,
   cli |-> "open", srv |-> "none", c2s |-> 0, s2c |-> 0, parent |-> 0,
   trace |-> <<>>, ev |-> <<>>]

Running == alive /\ server = "listening"

\* the chunks received so far: 'data' events of request and response bodies
\* and chunks relayed through a tunnel
Chunks(x) == x.body + Count(x.trace, "chunk") + x.c2s + x.s2c
TotalChunks == Cardinality(Units(Len(xs), LAMBDA c : Chunks(xs[c]), MaxChunks))

\* ---------------------------------------------------------------- start
\* faulty variant: start() loads the root CA
StartCaCertLoaded == CAPair

\* start(): this.caCert = null
StartCaCert == NULL

ProxyStart ==
  /\ alive /\ server = "null"
  /\ caCert' = StartCaCert
  /\ server' = "listening"
  /\ UNCHANGED <<others, calls, requestId, alive, xs, disk>>

\* ---------------------------------------------------------------- plain HTTP
\* handleRequest, up to the registration of the 'data' and 'end' listeners
HandleRequest(u) ==
  /\ Running /\ Len(xs) < MaxReq
  /\ LET id == NextRequestId(requestId) IN
       /\ requestId' = id
       /\ xs' = Append(xs, [NewExchange(id, "http") EXCEPT !.url = u])
  /\ UNCHANGED <<others, calls, server, caCert, alive, disk>>

\* clientReq.on('data'): body += chunk
ClientReqData(c) ==
  /\ Running
  /\ xs[c].kind = "http" /\ xs[c].pc = "reading" /\ TotalChunks < MaxChunks
  /\ xs' = [xs EXCEPT ![c].body = @ + 1]
  /\ UNCHANGED <<others, calls, server, requestId, caCert, alive, disk>>

\* faulty variant: the catch block does not return
ForwardsUpstreamAlways(u) == TRUE

\* whether the 'end' handler goes on to http.request: the catch block
\* replies 400 and returns
ForwardsUpstream(u) == URLParses(u)

\* the options and body handed to http.request
UpstreamRequest(u, body) ==
  [host |-> u.host, port |-> TargetPort(u), path |-> u.path, body |-> body]

\* the rest of the 'end' handler once the URL is parsed: http.request,
\* proxyReq.write(body), proxyReq.end()
ForwardRequest(x) ==
  [x EXCEPT !.pc = "upstream", !.upstream = UpstreamRequest(x.url, x.body),
            !.trace = @ \o <<"request">>]

\* the catch block of the 'end' handler
RejectRequest(x) ==
  [x EXCEPT !.pc = "rejected", !.trace = @ \o <<"400", "Invalid URL">>,
            !.cli = "ended"]

\* clientReq.on('end')
ClientReqEnd(c) ==
  /\ Running
  /\ xs[c].kind = "http" /\ xs[c].pc = "reading"
  /\ LET x == EmitRequest(xs[c]) IN
       xs' = [xs EXCEPT ![c] = IF ForwardsUpstream(x.url) THEN ForwardRequest(x)
                                                          ELSE RejectRequest(x)]
  /\ UNCHANGED <<others, calls, server, requestId, caCert, alive, disk>>

\* the http.request callback: clientRes.writeHead(status); proxyRes.pipe(clientRes)
ProxyResHead(c, st) ==
  /\ Running
  /\ xs[c].kind = "http" /\ xs[c].pc = "upstream"
  /\ xs' = [xs EXCEPT ![c].pc = "head", ![c].status = st,
                      ![c].trace = @ \o <<"status">>]
  /\ UNCHANGED <<others, calls, server, requestId, caCert, alive, disk>>

\* proxyRes.on('data') together with the pipe to clientRes
ProxyResData(c) ==
  /\ Running
  /\ xs[c].kind = "http" /\ xs[c].pc = "head"
  /\ TotalChunks < MaxChunks
  /\ xs' = [xs EXCEPT ![c].trace = @ \o <<"chunk">>]
  /\ UNCHANGED <<others, calls, server, requestId, caCert, alive, disk>>

\* proxyRes.on('end'): request.response = {...}; emit('response'); the pipe
\* ends clientRes
ProxyResEnd(c) ==
  /\ Running
  /\ xs[c].kind = "http" /\ xs[c].pc = "head"
  /\ xs' = [xs EXCEPT ![c] = Emit([@ EXCEPT !.pc = "done",
                                            !.response = "upstream",
                                            !.cli = "ended"], "response")]
  /\ UNCHANGED <<others, calls, server, requestId, caCert, alive, disk>>

\* clientRes.writeHead throws ERR_HTTP_HEADERS_SENT once a head was written
WriteHeadThrows(x) == Has(x.trace, "status")

\* proxyReq.on('error'): emit('error'); clientRes.writeHead(502);
\* clientRes.end('Proxy Error').  An exception thrown by the listener is
\* uncaught; the CLI's 'uncaughtException' handler runs cleanup(), which
\* calls process.exit(0).
ProxyReqError(c) ==
  /\ Running
  /\ xs[c].kind = "http" /\ xs[c].pc \in {"upstream", "head"}
  /\ LET x == Emit(xs[c], "error") IN
       IF WriteHeadThrows(x)
         THEN /\ xs' = [xs EXCEPT ![c] = [x EXCEPT !.pc = "threw"]]
              /\ alive' = FALSE
         ELSE /\ xs' = [xs EXCEPT ![c] =
                          [x EXCEPT !.pc = "failed",
                                    !.trace = @ \o <<"502", "Proxy Error">>,
                                    !.cli = "ended"]]
              /\ alive' = alive
  /\ UNCHANGED <<others, calls, server, requestId, caCert, disk>>

\* ---------------------------------------------------------------- certificates
\* A file of CERT_DIR is <<owner, extension>>.  Its content is a number: 0
\* is an empty file, k > 0 stands for the private key number k in a .key
\* file and for a certificate made for the key number k in a .crt file.
CAKey == <<"ca", "key">>
CACert == <<"ca", "crt">>
CASerial == <<"ca", "srl">>
HostFile(h, ext) == <<h, ext>>

NoDisk == [f \in {} |-> 0]
Exists(d, f) == f \in DOMAIN d
WriteFile(d, f, v) == [g \in DOMAIN d \cup {f} |-> IF g = f THEN v ELSE d[g]]
Unlink(d, fs) == [g \in DOMAIN d \ fs |-> d[g]]
Content(d, f) == IF Exists(d, f) THEN d[f] ELSE 0

\* the key openssl genrsa draws: one that differs from every key that a
\* file of the directory holds or was made for
MaxContent(d) ==
  IF DOMAIN d = {} THEN 0
  ELSE CHOOSE m \in {d[g] : g \in DOMAIN d} : \A g \in DOMAIN d : d[g] <= m

FreshKey(d) == 1 + MaxContent(d)

\* the step of generateCACert at which the environment makes it throw
CAFailPoints == {"none", "genrsa", "req"}

\* faulty variant: the existence check is skipped
GenerateCACertAlways(d, f) ==
  LET k  == FreshKey(d)
      d1 == WriteFile(d, CAKey, k)
      d2 == WriteFile(d1, CACert, k)
      paths == [key |-> CAKey, cert |-> CACert]
  IN  IF f = "genrsa"
        THEN [ok |-> FALSE, disk |-> d, steps |-> <<"genrsa">>, paths |-> paths]
      ELSE IF f = "req"
        THEN [ok |-> FALSE, disk |-> d1, steps |-> <<"genrsa", "req">>,
              paths |-> paths]
      ELSE [ok |-> TRUE, disk |-> d2, steps |-> <<"genrsa", "req">>,
            paths |-> paths]

\* generateCACert(): what it returns (ok is FALSE when it throws), the
\* openssl steps it ran and the files it leaves.  A failing step leaves its
\* output file as it was.
GenerateCACert(d, f) ==
  LET k  == FreshKey(d)
      d1 == WriteFile(d, CAKey, k)
      d2 == WriteFile(d1, CACert, k)
      paths == [key |-> CAKey, cert |-> CACert]
  IN  IF Exists(d, CAKey) /\ Exists(d, CACert)
        THEN [ok |-> TRUE, disk |-> d, steps |-> <<>>, paths |-> paths]
      ELSE IF f = "genrsa"
        THEN [ok |-> FALSE, disk |-> d, steps |-> <<"genrsa">>, paths |-> paths]
      ELSE IF f = "req"
        THEN [ok |-> FALSE, disk |-> d1, steps |-> <<"genrsa", "req">>,
              paths |-> paths]
      ELSE [ok |-> TRUE, disk |-> d2, steps |-> <<"genrsa", "req">>,
            paths |-> paths]

\* the step of generateHostCert at which the environment makes it throw;
\* "signOut" is a signing step that fails after openssl created its output
\* file, which it leaves empty
FailPoints == {"none", "genrsa", "csr", "ext", "sign", "signOut"}

\* openssl x509 -req -CA ca.crt -CAkey ca.key: "ok", "fail" (the CA files
\* cannot be loaded, nothing is written) or "failOut" (the CA certificate
\* and key do not match: the serial file is written and the output file is
\* left empty)
SignOutcome(d, f) ==
  IF f = "sign" \/ ~Exists(d, CAKey) \/ ~Exists(d, CACert) THEN "fail"
  ELSE IF f = "signOut" \/ d[CAKey] # d[CACert] \/ d[CAKey] = 0 THEN "failOut"
  ELSE "ok"

\* faulty variant: the cached pair is not looked for
GenerateHostCertAlways(d, h, f) ==
  LET key == HostFile(h, "key")
      crt == HostFile(h, "crt")
      k  == FreshKey(d)
      d5 == WriteFile(WriteFile(WriteFile(d, key, k), crt, k), CASerial, 1)
      paths == [key |-> key, cert |-> crt]
  IN  IF f = "none" /\ SignOutcome(d, f) = "ok"
        THEN [ok |-> TRUE, disk |-> d5,
              steps |-> <<"genrsa", "csr", "ext", "sign", "unlink">>,
              paths |-> paths]
        ELSE [ok |-> FALSE, disk |-> d, steps |-> <<"genrsa">>, paths |-> paths]

\* generateHostCert(hostname): what it returns (ok is FALSE when it throws),
\* the steps it ran and the files it leaves in CERT_DIR.
GenerateHostCert(d, h, f) ==
  LET key == HostFile(h, "key")
      crt == HostFile(h, "crt")
      csr == HostFile(h, "csr")
      ext == HostFile(h, "ext")
      k  == FreshKey(d)
      d1 == WriteFile(d, key, k)
      d2 == WriteFile(d1, csr, k)
      d3 == WriteFile(d2, ext, 1)
      d4 == WriteFile(WriteFile(d3, CASerial, 1), crt, 0)
      d5 == Unlink(WriteFile(d4, crt, k), {csr, ext})
      paths == [key |-> key, cert |-> crt]
      out == SignOutcome(d3, f)
  IN  IF Exists(d, key) /\ Exists(d, crt)
        THEN [ok |-> TRUE, disk |-> d, steps |-> <<>>, paths |-> paths]
      ELSE IF f = "genrsa"
        THEN [ok |-> FALSE, disk |-> d, steps |-> <<"genrsa">>, paths |-> paths]
      ELSE IF f = "csr"
        THEN [ok |-> FALSE, disk |-> d1, steps |-> <<"genrsa", "csr">>,
              paths |-> paths]
      ELSE IF f = "ext"
        THEN [ok |-> FALSE, disk |-> d2, steps |-> <<"genrsa", "csr", "ext">>,
              paths |-> paths]
      ELSE IF out = "fail"
        THEN [ok |-> FALSE, disk |-> d3,
              steps |-> <<"genrsa", "csr", "ext", "sign">>, paths |-> paths]
      ELSE IF out = "failOut"
        THEN [ok |-> FALSE, disk |-> d4,
              steps |-> <<"genrsa", "csr", "ext", "sign">>, paths |-> paths]
      ELSE [ok |-> TRUE, disk |-> d5,
            steps |-> <<"genrsa", "csr", "ext", "sign", "unlink">>,
            paths |-> paths]

\* the entry of calls for a call of fn that gave r and left the disk r.disk:
\* key and cert are the contents of the two files whose paths it returns, ca
\* is the content of ca.crt when it returns
CallRecord(fn, h, r) ==
  [fn |-> fn, host |-> h, ok |-> r.ok, steps |-> r.steps, paths |-> r.paths,
   key |-> Content(r.disk, r.paths.key), cert |-> Content(r.disk, r.paths.cert),
   ca |-> Content(r.disk, CACert)]

\* tls.TLSSocket with { key, cert } read from the two files: the secure
\* context is created only from a key and a certificate made for it
TlsContextOk(d, paths) ==
  Content(d, paths.key) # 0 /\ Content(d, paths.cert) = Content(d, paths.key)

\* ---------------------------------------------------------------- CONNECT
\* faulty variant: the 200 reply is written before the dial
HandleHttpsTunnelEager(x) ==
  [x EXCEPT !.pc = "tunnel", !.srv = "connecting",
            !.trace = @ \o <<"w200", "dial">>]

\* handleHttpsTunnel: net.connect(...) and the two 'error' listeners
HandleHttpsTunnel(x) ==
  [x EXCEPT !.pc = "tunnel", !.srv = "connecting", !.trace = @ \o <<"dial">>]

\* faulty variant: the catch block reports the failure and drops the connection
MitmFallbackDrop(x) == Emit([x EXCEPT !.pc = "closed", !.cli = "ended"], "error")

\* the catch block of handleHttpsWithMitm
MitmFallback(x) == HandleHttpsTunnel(x)

\* what the try block of handleHttpsWithMitm has done to the client socket
\* when readFileSync or new tls.TLSSocket throws
MitmSetupSteps == <<"cert", "w200", "tlsFail">>

\* faulty variant: request.response is set and the response event emitted
\* before the TLS socket is created
HandleHttpsWithMitmEarly(x, certOk, tlsOk) ==
  IF ~certOk
    THEN MitmFallback([x EXCEPT !.trace = @ \o <<"certFail">>])
  ELSE IF ~tlsOk
    THEN MitmFallback(Emit([x EXCEPT !.response = "mitm",
                                     !.trace = @ \o MitmSetupSteps], "response"))
  ELSE Emit([x EXCEPT !.pc = "mitm", !.response = "mitm",
                      !.trace = @ \o <<"cert", "w200", "tls">>], "response")

\* handleHttpsWithMitm: certOk is whether generateHostCert returned, tlsOk
\* whether readFileSync and new tls.TLSSocket returned.  The 200 reply is
\* written between the two, inside the same try block.
HandleHttpsWithMitm(x, certOk, tlsOk) ==
  IF ~certOk
    THEN MitmFallback([x EXCEPT !.trace = @ \o <<"certFail">>])
  ELSE IF ~tlsOk
    THEN MitmFallback([x EXCEPT !.trace = @ \o MitmSetupSteps])
  ELSE Emit([x EXCEPT !.pc = "mitm", !.response = "mitm",
                      !.trace = @ \o <<"cert", "w200", "tls">>], "response")

\* if (this.caCert) ... else ...
UsesMitm(ca) == ca # NULL

\* the failures of generateHostCert that CONNECT handling is run against:
\* none, one that leaves no file and one that leaves every file it can
ConnectFailPoints == {"none", "genrsa", "signOut"}

\* handleConnect: h is the CONNECT target, f and tlsOk what the file system
\* and openssl do to the MITM setup
HandleConnect(h, f, tlsOk) ==
  /\ Running /\ Len(xs) < MaxReq
  /\ LET id == NextRequestId(requestId)
         x0 == EmitRequest([NewExchange(id, "connect") EXCEPT !.host = h])
         r  == GenerateHostCert(disk, h, f)
     IN  /\ requestId' = id
         /\ IF UsesMitm(caCert)
              THEN /\ xs' = Append(xs, HandleHttpsWithMitm(x0, r.ok,
                                     tlsOk /\ TlsContextOk(r.disk, r.paths)))
                   /\ disk' = r.disk
                   /\ calls' = Append(calls, CallRecord("generateHostCert", h, r))
              ELSE /\ xs' = Append(xs, HandleHttpsTunnel(x0))
                   /\ disk' = disk
                   /\ calls' = calls
  /\ UNCHANGED <<others, server, caCert, alive>>

\* faulty variant: the sockets are spliced before the 200 reply is written
TunnelConnectedStepsLate == <<"head", "pipe", "w200">>

\* faulty variant: the client is spliced to the upstream before the head
\* bytes are written
TunnelConnectedStepsPipeFirst == <<"w200", "pipe", "head">>

\* what the net.connect callback does to the two sockets, in order
TunnelConnectedSteps == <<"w200", "head", "pipe">>

\* the net.connect callback.  When clientSocket errored during the dial,
\* serverSocket.end() is pending: write(head) is then a write after end,
\* which destroys serverSocket with an error right after the callback.
TunnelConnected(c) ==
  /\ Running
  /\ xs[c].kind = "connect" /\ xs[c].pc = "tunnel"
  /\ xs[c].srv \in {"connecting", "connectingEnd"}
  /\ LET x == Emit([xs[c] EXCEPT
                      !.response = "tunnel",
                      !.trace = @ \o <<"connected">> \o TunnelConnectedSteps],
                   "response")
     IN  IF xs[c].srv = "connecting"
           THEN xs' = [xs EXCEPT ![c] = [x EXCEPT !.srv = "open"]]
           ELSE xs' = [xs EXCEPT ![c] =
                         Emit([x EXCEPT !.srv = "destroyed",
                                        !.trace = @ \o <<"srvErr">>], "error")]
  /\ UNCHANGED <<others, calls, server, requestId, caCert, alive, disk>>

\* A socket of a tunnel is "open", "ended" (the proxy called end() on it:
\* its FIN is sent and the peer's is awaited), "closed" or "destroyed";
\* the client socket, which the HTTP server created with allowHalfOpen, is
\* "readEnded" after the client's FIN while it is still writable.

\* faulty variant: the client socket is left as it is
EndClientNot(s) == s

\* clientSocket.end()
EndClient(s) ==
  IF s = "open" THEN "ended" ELSE IF s = "readEnded" THEN "closed" ELSE s

\* serverSocket.end()
EndServer(s) ==
  IF s = "connecting" THEN "connectingEnd" ELSE IF s = "open" THEN "ended" ELSE s

\* serverSocket.on('error'): emit('error'); clientSocket.end()
ServerSocketError(c) ==
  /\ Running
  /\ xs[c].kind = "connect" /\ xs[c].pc = "tunnel"
  /\ xs[c].srv \in {"connecting", "connectingEnd", "open"}
  /\ xs' = [xs EXCEPT ![c] =
              Emit([@ EXCEPT !.srv = "destroyed",
                             !.cli = EndClient(@),
                             !.trace = @ \o <<"srvErr">>], "error")]
  /\ UNCHANGED <<others, calls, server, requestId, caCert, alive, disk>>

\* clientSocket.on('error'): serverSocket.end()
ClientSocketError(c) ==
  /\ Running
  /\ xs[c].kind = "connect" /\ xs[c].pc = "tunnel"
  /\ xs[c].cli = "open"
  /\ xs' = [xs EXCEPT ![c].cli = "destroyed",
                      ![c].srv = EndServer(@),
                      ![c].trace = @ \o <<"cliErr">>]
  /\ UNCHANGED <<others, calls, server, requestId, caCert, alive, disk>>

Piped(x) == x.kind = "connect" /\ x.pc = "tunnel" /\ x.srv = "open" /\ x.cli = "open"

\* clientSocket.pipe(serverSocket): one chunk from the client; c2s counts the
\* chunks relayed to the upstream
RelayC2S(c) ==
  /\ Running
  /\ Piped(xs[c]) /\ TotalChunks < MaxChunks
  /\ xs' = [xs EXCEPT ![c].c2s = @ + 1]
  /\ UNCHANGED <<others, calls, server, requestId, caCert, alive, disk>>

\* serverSocket.pipe(clientSocket): one chunk from the upstream; s2c counts
\* the chunks relayed to the client
RelayS2C(c) ==
  /\ Running
  /\ Piped(xs[c]) /\ TotalChunks < MaxChunks
  /\ xs' = [xs EXCEPT ![c].s2c = @ + 1]
  /\ UNCHANGED <<others, calls, server, requestId, caCert, alive, disk>>

\* the upstream's FIN on serverSocket, which is then closed (it was made
\* without allowHalfOpen); serverSocket.pipe(clientSocket) ends clientSocket
ServerSocketEnd(c) ==
  /\ Running
  /\ Piped(xs[c])
  /\ xs' = [xs EXCEPT ![c].srv = "closed", ![c].cli = EndClient(@),
                      ![c].trace = @ \o <<"srvEnd">>]
  /\ UNCHANGED <<others, calls, server, requestId, caCert, alive, disk>>

\* the client's FIN on clientSocket, which stays writable;
\* clientSocket.pipe(serverSocket) ends serverSocket
ClientSocketEnd(c) ==
  /\ Running
  /\ Piped(xs[c])
  /\ xs' = [xs EXCEPT ![c].cli = "readEnded", ![c].srv = EndServer(@),
                      ![c].trace = @ \o <<"cliEnd">>]
  /\ UNCHANGED <<others, calls, server, requestId, caCert, alive, disk>>

\* the upstream answers the FIN of an ended serverSocket with its own: the
\* socket is closed, and the pipe ends clientSocket if it is still writable
UpstreamCloses(c) ==
  /\ Running
  /\ xs[c].kind = "connect" /\ xs[c].pc = "tunnel" /\ xs[c].srv = "ended"
  /\ xs' = [xs EXCEPT ![c].srv = "closed", ![c].cli = EndClient(@)]
  /\ UNCHANGED <<others, calls, server, requestId, caCert, alive, disk>>

\* the client answers the FIN of an ended clientSocket with its own
ClientCloses(c) ==
  /\ Running
  /\ xs[c].kind = "connect" /\ xs[c].pc = "tunnel" /\ xs[c].cli = "ended"
  /\ xs' = [xs EXCEPT ![c].cli = "closed"]
  /\ UNCHANGED <<others, calls, server, requestId, caCert, alive, disk>>

\* ---------------------------------------------------------------- MITM
\* tlsSocket.on('data') -> handleHttpsRequest, up to proxyReq.end()
TlsData(c) ==
  /\ Running /\ Len(xs) < MaxReq
  /\ xs[c].kind = "connect" /\ xs[c].pc = "mitm" /\ xs[c].cli = "open"
  /\ LET id == NextRequestId(requestId) IN
       /\ requestId' = id
       /\ xs' = Append(xs, EmitRequest([NewExchange(id, "child") EXCEPT
                              !.pc = "upstream", !.host = xs[c].host,
                              !.parent = c, !.trace = <<"request">>]))
  /\ UNCHANGED <<others, calls, server, caCert, alive, disk>>

\* proxyRes.on('end') of handleHttpsRequest: request.response = {...};
\* emit('response'); clientSocket.write(response)
ChildResEnd(k, st) ==
  /\ Running
  /\ xs[k].kind = "child" /\ xs[k].pc = "upstream"
  /\ xs' = [xs EXCEPT ![k] = Emit([@ EXCEPT !.pc = "done",
                                            !.response = "upstream",
                                            !.status = st], "response"),
                      ![xs[k].parent].trace = @ \o <<"resp">>]
  /\ UNCHANGED <<others, calls, server, requestId, caCert, alive, disk>>

\* proxyReq.on('error') of handleHttpsRequest: emit('error')
ChildReqError(k) ==
  /\ Running
  /\ xs[k].kind = "child" /\ xs[k].pc = "upstream"
  /\ xs' = [xs EXCEPT ![k] = Emit([@ EXCEPT !.pc = "failed"], "error")]
  /\ UNCHANGED <<others, calls, server, requestId, caCert, alive, disk>>

\* tlsSocket.on('error'): clientSocket.end()
TlsSocketError(c) ==
  /\ Running
  /\ xs[c].kind = "connect" /\ xs[c].pc = "mitm" /\ xs[c].cli = "open"
  /\ xs' = [xs EXCEPT ![c].cli = "ended", ![c].trace = @ \o <<"tlsErr">>]
  /\ UNCHANGED <<others, calls, server, requestId, caCert, alive, disk>>

\* ---------------------------------------------------------------- CA path
\* null where a path is expected
NoPath == <<>>

\* getCACertPath() of certificate.ts: return CA_CERT
GetCACertPath == CACert

\* faulty variant: the path is returned whether or not the CA is loaded
ProxyGetCACertPathAlways(ca) == GetCACertPath

\* ProxyServer.getCACertPath(): this.caCert ? getCACertPath() : null
ProxyGetCACertPath(ca) == IF ca # NULL THEN GetCACertPath ELSE NoPath

\* getProxyCACertPath(): proxyInstance?.getCACertPath() || null; there is a
\* proxyInstance from startProxy() on
GetProxyCACertPath ==
  IF server = "null" THEN NoPath ELSE ProxyGetCACertPath(caCert)

\* GET /api/ca-cert of the dashboard server
CaCertRoute ==
  IF GetProxyCACertPath # NoPath
    THEN [status |-> 200, download |-> GetProxyCACertPath]
    ELSE [status |-> 404, download |-> NoPath]

\* ---------------------------------------------------------------- specifications
\* The program as the CLI runs it: a constructed ProxyServer, then start().
Init ==
  /\ server = "null"
  /\ requestId = 0
  /\ caCert = NULL
  /\ alive = TRUE
  /\ xs = <<>>
  /\ disk = NoDisk
  /\ calls = <<>>
  /\ OthersOff

HttpNext ==
  \/ \E u \in URLs : HandleRequest(u)
  \/ \E c \in DOMAIN xs : ClientReqData(c)
  \/ \E c \in DOMAIN xs : ClientReqEnd(c)
  \/ \E c \in DOMAIN xs, st \in Statuses : ProxyResHead(c, st)
  \/ \E c \in DOMAIN xs : ProxyResData(c)
  \/ \E c \in DOMAIN xs : ProxyResEnd(c)
  \/ \E c \in DOMAIN xs : ProxyReqError(c)

TunnelNext ==
  \/ \E h \in Hosts, f \in ConnectFailPoints, t \in BOOLEAN : HandleConnect(h, f, t)
  \/ \E c \in DOMAIN xs : TunnelConnected(c)
  \/ \E c \in DOMAIN xs : ServerSocketError(c)
  \/ \E c \in DOMAIN xs : ClientSocketError(c)
  \/ \E c \in DOMAIN xs : RelayC2S(c)
  \/ \E c \in DOMAIN xs : RelayS2C(c)
  \/ \E c \in DOMAIN xs : ServerSocketEnd(c)
  \/ \E c \in DOMAIN xs : ClientSocketEnd(c)

MitmNext ==
  \/ \E c \in DOMAIN xs : TlsData(c)
  \/ \E k \in DOMAIN xs, st \in Statuses : ChildResEnd(k, st)
  \/ \E k \in DOMAIN xs : ChildReqError(k)
  \/ \E c \in DOMAIN xs : TlsSocketError(c)

Next == ProxyStart \/ HttpNext \/ TunnelNext

Spec == Init /\ [][Next]_vars

\* The handlers with the MITM toggle in either position: a listening
\* ProxyServer whose caCert is null or holds the root CA whose files are on
\* disk.  start() never produces caCert # null; this
\* specification is the configuration section 4.3 describes as "MITM mode".
InitMitm ==
  /\ server = "listening"
  /\ requestId = 0
  /\ caCert \in {NULL, CAPair}
  /\ alive = TRUE
  /\ xs = <<>>
  /\ disk = IF caCert = NULL THEN NoDisk
                             ELSE WriteFile(WriteFile(NoDisk, CAKey, 1), CACert, 1)
  /\ calls = <<>>
  /\ OthersOff

NextMitm == HttpNext \/ TunnelNext \/ MitmNext

SpecMitm == InitMitm /\ [][NextMitm]_vars

\* ---------------------------------------------------------------- MITM session
\* One TLS session with what travels on it.  A request is written by the
\* client as its head (request line, headers and the blank line) followed,
\* when it has one, by its body; the TLS socket hands the bytes to the 'data'
\* listener in pieces that need not be the client's writes.

\* requests the client writes on the session
MaxSessionReq == 2

\* the parts of request n in the order the client writes them
RequestParts(n, hasBody) ==
  <<[req |-> n, part |-> "head"]>>
    \o (IF hasBody THEN <<[req |-> n, part |-> "body"]>> ELSE <<>>)

\* the client writes a request on the MITM session c
ClientWrites(c, hasBody) ==
  /\ Running
  /\ xs[c].kind = "connect" /\ xs[c].pc = "mitm" /\ xs[c].cli = "open"
  /\ tls.conn \in {0, c}
  /\ tls.sent < MaxSessionReq
  /\ tls' = [tls EXCEPT !.conn = c, !.sent = @ + 1,
                        !.pending = @ \o RequestParts(tls.sent + 1, hasBody)]
  /\ UNCHANGED <<outside, server, requestId, caCert, alive, xs, disk, calls>>

\* const body = lines.slice(bodyStart).join('\r\n'): the parts of the chunk
\* that follow the first blank line, which ends the first head of the chunk;
\* the whole chunk when it holds no blank line (bodyStart stays 0)
ParsedBody(chunk) ==
  LET heads == {i \in DOMAIN chunk : chunk[i].part = "head"}
  IN  IF heads = {} THEN chunk
      ELSE SubSeq(chunk, 1 + CHOOSE i \in heads : \A j \in heads : i <= j,
                  Len(chunk))

\* tlsSocket.on('data') -> handleHttpsRequest for a chunk that holds the
\* first n parts on their way: one id, one request event and one upstream
\* request, whatever the chunk holds
TlsSessionData(c, n) ==
  /\ Running
  /\ xs[c].kind = "connect" /\ xs[c].pc = "mitm" /\ xs[c].cli = "open"
  /\ tls.conn = c /\ n \in 1..Len(tls.pending)
  /\ LET id    == NextRequestId(requestId)
         chunk == SubSeq(tls.pending, 1, n)
     IN  /\ requestId' = id
         /\ xs' = Append(xs, EmitRequest([NewExchange(id, "child") EXCEPT
                                !.pc = "upstream", !.host = xs[c].host,
                                !.parent = c, !.body = Len(ParsedBody(chunk)),
                                !.trace = <<"request">>]))
         /\ tls' = [tls EXCEPT
                      !.pending = SubSeq(@, n + 1, Len(@)),
                      !.data = Append(@, [child |-> Len(xs) + 1, chunk |-> chunk])]
  /\ UNCHANGED <<outside, server, caCert, alive, disk, calls>>

\* MITM mode, when handleConnect has set up the session of the first CONNECT:
\* the root CA is loaded, its files and the host's are on disk
InitSession ==
  \E h \in Hosts :
    LET ca == WriteFile(WriteFile(NoDisk, CAKey, 1), CACert, 1)
        x0 == EmitRequest([NewExchange(NextRequestId(0), "connect") EXCEPT !.host = h])
        r  == GenerateHostCert(ca, h, "none")
    IN  /\ server = "listening"
        /\ requestId = NextRequestId(0)
        /\ caCert = CAPair
        /\ alive = TRUE
        /\ xs = <<HandleHttpsWithMitm(x0, r.ok, TlsContextOk(r.disk, r.paths))>>
        /\ disk = r.disk
        /\ calls = <<CallRecord("generateHostCert", h, r)>>
        /\ OthersOff

NextSession ==
  \/ \E c \in DOMAIN xs, hasBody \in BOOLEAN : ClientWrites(c, hasBody)
  \/ \E c \in DOMAIN xs, n \in 1..(2 * MaxSessionReq) : TlsSessionData(c, n)
  \/ \E k \in DOMAIN xs, st \in Statuses : ChildResEnd(k, st)
  \/ \E k \in DOMAIN xs : ChildReqError(k)
  \/ \E c \in DOMAIN xs : TlsSocketError(c)

SpecSession == InitSession /\ [][NextSession]_vars

\* Tunnel mode alone, as start() leaves the proxy, with the peers' answers
\* to the FIN of a socket the proxy ended.
InitTunnel ==
  /\ server = "listening"
  /\ requestId = 0
  /\ caCert = StartCaCert
  /\ alive = TRUE
  /\ xs = <<>>
  /\ disk = NoDisk
  /\ calls = <<>>
  /\ OthersOff

HalfCloseNext ==
  \/ \E c \in DOMAIN xs : UpstreamCloses(c)
  \/ \E c \in DOMAIN xs : ClientCloses(c)

NextTunnel == TunnelNext \/ HalfCloseNext

SpecTunnel == InitTunnel /\ [][NextTunnel]_vars

\* certificate.ts alone: generateCACert and generateHostCert called
\* directly, in any order, on a certificate directory that holds any part
\* of an earlier root pair.
CertHosts == {"a.com", "b.com"}

InitDisks ==
  { NoDisk,
    WriteFile(NoDisk, CAKey, 1),
    WriteFile(NoDisk, CACert, 1),
    WriteFile(WriteFile(NoDisk, CAKey, 1), CACert, 1) }

InitCert ==
  /\ server = "null"
  /\ requestId = 0
  /\ caCert = NULL
  /\ alive = TRUE
  /\ xs = <<>>
  /\ disk \in InitDisks
  /\ calls = <<>>
  /\ OthersOff

CallGenerateCACert(f) ==
  /\ Len(calls) < MaxCalls
  /\ LET r == GenerateCACert(disk, f) IN
       /\ disk' = r.disk
       /\ calls' = Append(calls, CallRecord("generateCACert", "", r))
  /\ UNCHANGED <<others, server, requestId, caCert, alive, xs>>

CallGenerateHostCert(h, f) ==
  /\ Len(calls) < MaxCalls
  /\ LET r == GenerateHostCert(disk, h, f) IN
       /\ disk' = r.disk
       /\ calls' = Append(calls, CallRecord("generateHostCert", h, r))
  /\ UNCHANGED <<others, server, requestId, caCert, alive, xs>>

NextCert ==
  \/ \E f \in CAFailPoints : CallGenerateCACert(f)
  \/ \E h \in CertHosts, f \in FailPoints : CallGenerateHostCert(h, f)

SpecCert == InitCert /\ [][NextCert]_vars

\* certificate.ts on a directory whose root files can go away between two
\* calls (ca.key and ca.crt deleted by hand): generateCACert then finds them
\* absent and generates a new root pair.
RemoveCAFiles ==
  /\ Exists(disk, CAKey) \/ Exists(disk, CACert)
  /\ disk' = Unlink(disk, {CAKey, CACert})
  /\ UNCHANGED <<others, calls, server, requestId, caCert, alive, xs>>

NextCertReset == NextCert \/ RemoveCAFiles

SpecCertReset == InitCert /\ [][NextCertReset]_vars

\* The MITM handlers with the thread made visible: generateHostCert runs
\* its openssl steps with execSync, which returns when the child process
\* has exited.  Node runs every handler and callback on the one thread, so
\* none starts while the thread is inside execSync.
InsideExecSync(x) == x.kind = "connect" /\ x.pc = "execSync"

ThreadFree == \A c \in DOMAIN xs : ~InsideExecSync(xs[c])

Cached(d, h) == Exists(d, HostFile(h, "key")) /\ Exists(d, HostFile(h, "crt"))

\* handleConnect for a host without a cached pair, up to the first execSync
\* of generateHostCert
ConnectEntersExecSync(h) ==
  /\ Running /\ Len(xs) < MaxReq /\ ThreadFree
  /\ UsesMitm(caCert) /\ ~Cached(disk, h)
  /\ LET id == NextRequestId(requestId)
         x0 == EmitRequest([NewExchange(id, "connect") EXCEPT !.host = h])
     IN  /\ requestId' = id
         /\ xs' = Append(xs, [x0 EXCEPT !.pc = "execSync"])
  /\ UNCHANGED <<others, calls, server, caCert, alive, disk>>

\* the rest of that handler: the openssl steps end (f is the one that
\* fails) and handleHttpsWithMitm goes on
ExecSyncReturns(c, f, tlsOk) ==
  /\ Running /\ InsideExecSync(xs[c])
  /\ LET r == GenerateHostCert(disk, xs[c].host, f) IN
       /\ xs' = [xs EXCEPT ![c] =
                   HandleHttpsWithMitm(xs[c], r.ok,
                                       tlsOk /\ TlsContextOk(r.disk, r.paths))]
       /\ disk' = r.disk
       /\ calls' = Append(calls, CallRecord("generateHostCert", xs[c].host, r))
  /\ UNCHANGED <<others, server, requestId, caCert, alive>>

\* handleConnect when no execSync runs: tunnel mode, or a cached pair
ConnectNoExecSync(h, tlsOk) ==
  /\ ThreadFree /\ (UsesMitm(caCert) => Cached(disk, h))
  /\ HandleConnect(h, "none", tlsOk)

\* the proxy accepts a connection: a request or a CONNECT reaches its handler
AcceptsConnection ==
  \/ \E u \in URLs : ThreadFree /\ HandleRequest(u)
  \/ \E h \in Hosts : ConnectEntersExecSync(h)
  \/ \E h \in Hosts, t \in BOOLEAN : ConnectNoExecSync(h, t)

\* a callback of a connection accepted earlier runs
OtherConnectionProgresses ==
  \/ \E c \in DOMAIN xs : ThreadFree /\ ClientReqData(c)
  \/ \E c \in DOMAIN xs : ThreadFree /\ ClientReqEnd(c)
  \/ \E c \in DOMAIN xs, st \in Statuses : ThreadFree /\ ProxyResHead(c, st)
  \/ \E c \in DOMAIN xs : ThreadFree /\ ProxyResData(c)
  \/ \E c \in DOMAIN xs : ThreadFree /\ ProxyResEnd(c)
  \/ \E c \in DOMAIN xs : ThreadFree /\ ProxyReqError(c)
  \/ \E c \in DOMAIN xs : ThreadFree /\ TunnelConnected(c)
  \/ \E c \in DOMAIN xs : ThreadFree /\ ServerSocketError(c)
  \/ \E c \in DOMAIN xs : ThreadFree /\ TlsData(c)
  \/ \E c \in DOMAIN xs : ThreadFree /\ TlsSocketError(c)

InitExecSync ==
  /\ server = "listening"
  /\ requestId = 0
  /\ caCert = CAPair
  /\ alive = TRUE
  /\ xs = <<>>
  /\ disk = WriteFile(WriteFile(NoDisk, CAKey, 1), CACert, 1)
  /\ calls = <<>>
  /\ OthersOff

NextExecSync ==
  \/ AcceptsConnection
  \/ OtherConnectionProgresses
  \/ \E c \in DOMAIN xs, f \in ConnectFailPoints, t \in BOOLEAN :
       ExecSyncReturns(c, f, t)

SpecExecSync == InitExecSync /\ [][NextExecSync]_vars

\* The request body of handleRequest byte by byte.  A byte is written in
\* hexadecimal: 61 is the letter a, c3 a9 is the UTF-8 encoding of the
\* letter e with an acute accent; a c3 or an a9 in any other place is not
\* valid UTF-8.
MaxChunkLen == 2
MaxBodyChunks == 2

Bytes == {"61", "c3", "a9"}

RECURSIVE SeqsOf(_, _)
SeqsOf(S, n) ==
  IF n = 0 THEN {<<>>}
  ELSE LET shorter == SeqsOf(S, n - 1)
       IN  shorter \cup {Append(q, e) : q \in shorter, e \in S}

BodyChunks == SeqsOf(Bytes, MaxChunkLen) \ {<<>>}

\* chunk.toString(): the UTF-8 decoding of the bytes of one chunk, with
\* U+FFFD for every byte that is not part of a valid sequence
RECURSIVE ChunkToString(_)
ChunkToString(b) ==
  IF b = <<>> THEN <<>>
  ELSE IF Head(b) = "61" THEN <<"a">> \o ChunkToString(Tail(b))
  ELSE IF Head(b) = "c3" /\ Len(b) >= 2 /\ b[2] = "a9"
    THEN <<"e-acute">> \o ChunkToString(Tail(Tail(b)))
  ELSE <<"U+FFFD">> \o ChunkToString(Tail(b))

\* proxyReq.write(body): the UTF-8 encoding of the string
RECURSIVE Utf8(_)
Utf8(str) ==
  IF str = <<>> THEN <<>>
  ELSE (CASE Head(str) = "a" -> <<"61">>
          [] Head(str) = "e-acute" -> <<"c3", "a9">>
          [] OTHER -> <<"ef", "bf", "bd">>) \o Utf8(Tail(str))

\* the bytes of a sequence of chunks, in order
RECURSIVE Flatten(_)
Flatten(cs) == IF cs = <<>> THEN <<>> ELSE Head(cs) \o Flatten(Tail(cs))

proxyVars == <<server, requestId, caCert, alive, xs, disk, calls, tls>>

dashVars ==
  <<proxyPort, connectedDevices, cleanup, attached, httpProxy, proxyState,
    toggles>>

sockVars == <<sockets, connections, proxyListeners>>

instVars == <<proxyInstance, instances>>

logVars == <<currentLogStreamer, streamers, sockVars, instVars>>

\* clientReq.on('data'): body += chunk.toString()
BodyData ==
  /\ wire.pc = "reading" /\ wire.got < Len(wire.chunks)
  /\ wire' = [wire EXCEPT !.got = @ + 1,
                          !.body = @ \o ChunkToString(wire.chunks[wire.got + 1])]
  /\ UNCHANGED <<proxyVars, dashVars, logVars>>

\* clientReq.on('end') for a URL that parses: if (body) proxyReq.write(body);
\* proxyReq.end()
BodyEnd ==
  /\ wire.pc = "reading" /\ wire.got = Len(wire.chunks)
  /\ wire' = [wire EXCEPT !.pc = "sent", !.sent = Utf8(wire.body)]
  /\ UNCHANGED <<proxyVars, dashVars, logVars>>

InitBody ==
  /\ server = "listening"
  /\ requestId = 0
  /\ caCert = StartCaCert
  /\ alive = TRUE
  /\ xs = <<>>
  /\ disk = NoDisk
  /\ calls = <<>>
  /\ wire \in {[NoWire EXCEPT !.chunks = cs, !.pc = "reading"] :
                 cs \in SeqsOf(BodyChunks, MaxBodyChunks)}
  /\ proxyPort = DefaultProxyPort
  /\ connectedDevices = {}
  /\ cleanup = NoCleanup
  /\ attached = {}
  /\ httpProxy = [d \in Devices |-> ProxyOff]
  /\ proxyState = EmptyMap
  /\ toggles = <<>>
  /\ currentLogStreamer = 0
  /\ streamers = <<>>
  /\ NoSockets
  /\ NoInstances
  /\ tls = NoTls

NextBody == BodyData \/ BodyEnd

SpecBody == InitBody /\ [][NextBody]_vars

\* The id strings.  A ProxyServer that has handed out any number of ids up
\* to MaxIssued receives further requests and CONNECTs.
MaxIssued == 10

\* faulty variant: only the last digit is written
DigitsLast(n) == <<n % 10>>

\* the decimal digits of n, as the template literal writes them
RECURSIVE Digits(_)
Digits(n) == IF n < 10 THEN <<n>> ELSE Digits(n \div 10) \o <<n % 10>>

\* `req_${n}` as its sequence of character codes
IdString(n) ==
  LET ds == Digits(n)
  IN  <<114, 101, 113, 95>> \o [i \in DOMAIN ds |-> 48 + ds[i]]

\* a < b for two strings, as JavaScript's < and the default sort compare them
LexLess(a, b) ==
  \E k \in 1..(Len(a) + 1) :
    /\ \A i \in 1..(k - 1) : i <= Len(b) /\ a[i] = b[i]
    /\ IF k > Len(a) THEN Len(b) >= k
                     ELSE k <= Len(b) /\ a[k] < b[k]

InitIds ==
  /\ server = "listening"
  /\ requestId \in 0..MaxIssued
  /\ caCert = StartCaCert
  /\ alive = TRUE
  /\ xs = <<>>
  /\ disk = NoDisk
  /\ calls = <<>>
  /\ OthersOff

NextIds ==
  \/ \E u \in URLs : HandleRequest(u)
  \/ \E h \in Hosts : HandleConnect(h, "none", TRUE)

SpecIds == InitIds /\ [][NextIds]_vars

\* ---------------------------------------------------------------- network capture
\* The CLI and the dashboard's toggle-proxy handler, with the devices.  An
\* adb command is a child process: it acts on the device, if adb reaches
\* it, some time after the handler spawned it, and the handler goes on when
\* it has exited.
MaxToggles == 2

ProxyPorts == {DefaultProxyPort, 9090}

\* getLocalIP()
LocalIP == "192.168.1.2"

\* the port in `settings put global http_proxy ${ip}:8080`
TogglePort(port) == 8080

\* the value the toggle-proxy handler has adb write
ToggleSetting(enabled, port) ==
  IF enabled THEN [host |-> LocalIP, port |-> TogglePort(port)] ELSE ProxyOff

NodeRuns == cleanup.pc # "exited"

\* socket.on('toggle-proxy'), up to the await
ToggleProxy(d, enabled) ==
  /\ NodeRuns /\ Len(toggles) < MaxToggles
  /\ toggles' = Append(toggles, [deviceId |-> d, enabled |-> enabled, pc |-> "adb",
                                 emitted |-> <<"proxy-loading:true">>])
  /\ UNCHANGED <<proxyVars, wire, logVars, proxyPort, connectedDevices,
                 cleanup, attached, httpProxy, proxyState>>

\* the adb child process of toggle i runs
ToggleAdb(i) ==
  /\ toggles[i].pc = "adb"
  /\ LET t == toggles[i] IN
       IF t.deviceId \in attached
         THEN /\ httpProxy' = [httpProxy EXCEPT ![t.deviceId] =
                                 ToggleSetting(t.enabled, proxyPort)]
              /\ toggles' = [toggles EXCEPT ![i].pc = "exited0"]
         ELSE /\ httpProxy' = httpProxy
              /\ toggles' = [toggles EXCEPT ![i].pc = "exited1"]
  /\ UNCHANGED <<proxyVars, wire, logVars, proxyPort, connectedDevices,
                 cleanup, attached, proxyState>>

\* proxyState.set(deviceId, v)
MapSet(m, d, v) == [e \in DOMAIN m \cup {d} |-> IF e = d THEN v ELSE m[e]]

\* socket.emit of the toggle-proxy handler i: the event and the finally
\* block's 'proxy-loading' {loading: false}
ToggleEmits(i, event) ==
  [toggles EXCEPT ![i].pc = event,
                  ![i].emitted = @ \o <<"proxy-" \o event, "proxy-loading:false">>]

\* faulty variant: the map is written before the await, so that a failed adb
\* leaves the new value behind
ToggleResumesSetFirst(i) ==
  /\ NodeRuns /\ toggles[i].pc \in {"exited0", "exited1"}
  /\ proxyState' = MapSet(proxyState, toggles[i].deviceId, toggles[i].enabled)
  /\ toggles' = ToggleEmits(i, IF toggles[i].pc = "exited0" THEN "status" ELSE "error")
  /\ UNCHANGED <<proxyVars, wire, logVars, proxyPort, connectedDevices,
                 cleanup, attached, httpProxy>>

\* the toggle-proxy handler after the await: proxyState.set and
\* 'proxy-status', or the catch block's 'proxy-error'; then the finally block
ToggleResumes(i) ==
  /\ NodeRuns /\ toggles[i].pc \in {"exited0", "exited1"}
  /\ IF toggles[i].pc = "exited0"
       THEN /\ proxyState' = MapSet(proxyState, toggles[i].deviceId,
                                    toggles[i].enabled)
            /\ toggles' = ToggleEmits(i, "status")
       ELSE /\ proxyState' = proxyState
            /\ toggles' = ToggleEmits(i, "error")
  /\ UNCHANGED <<proxyVars, wire, logVars, proxyPort, connectedDevices,
                 cleanup, attached, httpProxy>>

\* socket.on('get-proxy-status'): proxyState.get(deviceId) || false
GetProxyStatus(d) == d \in DOMAIN proxyState /\ proxyState[d]

\* a device is plugged in or unplugged
Attach(d) ==
  /\ NodeRuns /\ d \notin attached
  /\ attached' = attached \cup {d}
  /\ UNCHANGED <<proxyVars, wire, logVars, proxyPort, connectedDevices,
                 cleanup, httpProxy, proxyState, toggles>>

Detach(d) ==
  /\ NodeRuns /\ d \in attached
  /\ attached' = attached \ {d}
  /\ UNCHANGED <<proxyVars, wire, logVars, proxyPort, connectedDevices,
                 cleanup, httpProxy, proxyState, toggles>>

\* the devices cleanup() visits: connectedDevices (all are Android here)
CleanupDevices(ds) == ds

\* SIGINT, SIGTERM, SIGHUP: cleanup() up to its first await
Signal ==
  /\ NodeRuns
  /\ IF cleanup.isCleaningUp
       THEN cleanup' = cleanup
       ELSE cleanup' = [pc |-> "cleaning", isCleaningUp |-> TRUE,
                        todo |-> CleanupDevices(connectedDevices)]
  /\ UNCHANGED <<proxyVars, wire, logVars, proxyPort, connectedDevices,
                 attached, httpProxy, proxyState, toggles>>

\* cleanupDeviceProxy(d): adb writes :0 if it reaches the device; its
\* failure is swallowed
CleanupDeviceProxy(d) ==
  /\ cleanup.pc = "cleaning" /\ d \in cleanup.todo
  /\ httpProxy' = IF d \in attached THEN [httpProxy EXCEPT ![d] = ProxyOff]
                                     ELSE httpProxy
  /\ cleanup' = [cleanup EXCEPT !.todo = @ \ {d}]
  /\ UNCHANGED <<proxyVars, wire, logVars, proxyPort, connectedDevices,
                 attached, proxyState, toggles>>

\* 'Proxy removed. Safe to disconnect USB!' and process.exit(0)
CleanupExit ==
  /\ cleanup.pc = "cleaning" /\ cleanup.todo = {}
  /\ cleanup' = [cleanup EXCEPT !.pc = "exited"]
  /\ UNCHANGED <<proxyVars, wire, logVars, proxyPort, connectedDevices,
                 attached, httpProxy, proxyState, toggles>>

\* the CLI once 'Ready!' is printed: the proxy listens on proxyPort,
\* connectedDevices are the devices attached at startup, whose http_proxy
\* the startup loop has reset
InitDash ==
  /\ server = "listening"
  /\ requestId = 0
  /\ caCert = StartCaCert
  /\ alive = TRUE
  /\ xs = <<>>
  /\ disk = NoDisk
  /\ calls = <<>>
  /\ wire = NoWire
  /\ proxyPort \in ProxyPorts
  /\ attached \in SUBSET Devices
  /\ connectedDevices = attached
  /\ cleanup = NoCleanup
  /\ httpProxy = [d \in Devices |-> ProxyOff]
  /\ proxyState = EmptyMap
  /\ toggles = <<>>
  /\ currentLogStreamer = 0
  /\ streamers = <<>>
  /\ NoSockets
  /\ NoInstances
  /\ tls = NoTls

NextDash ==
  \/ \E d \in Devices, e \in BOOLEAN : ToggleProxy(d, e)
  \/ \E i \in DOMAIN toggles : ToggleAdb(i)
  \/ \E i \in DOMAIN toggles : ToggleResumes(i)
  \/ \E d \in Devices : Attach(d)
  \/ \E d \in Devices : Detach(d)
  \/ Signal
  \/ \E d \in Devices : CleanupDeviceProxy(d)
  \/ CleanupExit

SpecDash == InitDash /\ [][NextDash]_vars

\* ---------------------------------------------------------------- log streaming
\* The dashboard's start-logs, stop-logs and disconnect handlers with the
\* LogStreamer objects.  start() awaits `adb logcat -c` and, for a package,
\* `adb shell pidof`; a poll callback awaits pidof too.  Every await gives
\* the other handlers a turn.
MaxStreamers == 2
MaxTicks == 2
MaxConnections == 2

\* new LogStreamer(deviceId, packageName): pkg is whether a package name was
\* given, process whether this.process is set, spawned the number of adb
\* logcat processes this streamer spawned that were not killed, ticks the
\* poll callbacks that await pidof, stopped whether stop() was called, log
\* the levels of the 'log' entries start() and the poll callback emitted,
\* socket the dashboard socket whose start-logs handler created it and to
\* which its 'log' listener emits
NewStreamer(k, pkg) ==
  [pkg |-> pkg, pc |-> "new", process |-> FALSE, pollInterval |-> FALSE,
   spawned |-> 0, ticks |-> 0, stopped |-> FALSE, log |-> <<>>, socket |-> k]

\* this.process = spawn('adb', args)
Spawn(st) == [st EXCEPT !.process = TRUE, !.spawned = @ + 1]

\* LogStreamer.stop()
StreamerStop(st) ==
  [st EXCEPT !.stopped = TRUE,
             !.pollInterval = FALSE,
             !.process = FALSE,
             !.spawned = IF st.process THEN @ - 1 ELSE @]

\* if (currentLogStreamer) currentLogStreamer.stop()
StopCurrent ==
  IF currentLogStreamer # 0
    THEN [streamers EXCEPT ![currentLogStreamer] = StreamerStop(@)]
    ELSE streamers

\* socket.on('start-logs'), up to the first await of start()
StartLogs(k, pkg) ==
  /\ k \in sockets /\ Len(streamers) < MaxStreamers
  /\ streamers' = Append(StopCurrent,
                         [NewStreamer(k, pkg) EXCEPT !.pc = "logcat -c"])
  /\ currentLogStreamer' = Len(streamers) + 1
  /\ UNCHANGED <<proxyVars, wire, dashVars, sockVars, instVars>>

\* start() after `adb logcat -c`: without a package logcat is spawned, with
\* one pidof is awaited
LogcatCleared(s) ==
  /\ streamers[s].pc = "logcat -c"
  /\ streamers' = [streamers EXCEPT ![s] =
                     IF @.pkg THEN [@ EXCEPT !.pc = "pidof"]
                              ELSE [Spawn(@) EXCEPT !.pc = "returned"]]
  /\ UNCHANGED <<proxyVars, wire, dashVars, sockVars, instVars, currentLogStreamer>>

\* start() after pidof: logcat is spawned for a running app, else the
\* 'not running' warning is emitted and pollForAppStart() sets the interval
PidofReturns(s, running) ==
  /\ streamers[s].pc = "pidof"
  /\ streamers' = [streamers EXCEPT ![s] =
                     IF running THEN [Spawn(@) EXCEPT !.pc = "returned"]
                                ELSE [@ EXCEPT !.pc = "returned",
                                               !.log = Append(@, "WARN"),
                                               !.pollInterval = TRUE]]
  /\ UNCHANGED <<proxyVars, wire, dashVars, sockVars, instVars, currentLogStreamer>>

\* the interval fires: the callback up to its await
PollTick(s) ==
  /\ streamers[s].pollInterval /\ streamers[s].ticks < MaxTicks
  /\ streamers' = [streamers EXCEPT ![s].ticks = @ + 1]
  /\ UNCHANGED <<proxyVars, wire, dashVars, sockVars, instVars, currentLogStreamer>>

\* the poll callback after pidof: for a running app the interval is
\* cleared, the 'started' entry emitted and logcat spawned
PollPidofReturns(s, running) ==
  /\ streamers[s].ticks > 0
  /\ streamers' = [streamers EXCEPT ![s] =
                     IF running
                       THEN [Spawn(@) EXCEPT !.ticks = @ - 1,
                                             !.log = Append(@, "INFO"),
                                             !.pollInterval = FALSE]
                       ELSE [@ EXCEPT !.ticks = @ - 1]]
  /\ UNCHANGED <<proxyVars, wire, dashVars, sockVars, instVars, currentLogStreamer>>

\* socket.on('stop-logs') of socket k
StopLogs(k) ==
  /\ k \in sockets
  /\ streamers' = StopCurrent
  /\ currentLogStreamer' = 0
  /\ UNCHANGED <<proxyVars, wire, dashVars, sockVars, instVars>>

\* proxy.on('request', ...); proxy.on('response', ...)
AddListeners(l) == [request |-> l.request + 1, response |-> l.response + 1]

\* io.on('connection'): the socket's handlers are registered and, if
\* getProxyInstance() is not null, its two listeners on the proxy
Connection ==
  /\ connections < MaxConnections
  /\ connections' = connections + 1
  /\ sockets' = sockets \cup {connections + 1}
  /\ proxyListeners' = IF proxyInstance # 0 THEN AddListeners(proxyListeners)
                                            ELSE proxyListeners
  /\ UNCHANGED <<proxyVars, wire, dashVars, instVars, currentLogStreamer,
                 streamers>>

\* socket.on('disconnect') of socket k: the handler does not touch the
\* listeners on the proxy
Disconnect(k) ==
  /\ k \in sockets
  /\ sockets' = sockets \ {k}
  /\ streamers' = StopCurrent
  /\ currentLogStreamer' = 0
  /\ UNCHANGED <<proxyVars, wire, dashVars, instVars, connections,
                 proxyListeners>>

\* the ProxyServer the CLI started before the dashboard server
CliProxy ==
  /\ proxyInstance = 1
  /\ instances = <<[port |-> DefaultProxyPort, listening |-> TRUE]>>

\* one dashboard is connected
InitLogs ==
  /\ server = "listening"
  /\ requestId = 0
  /\ caCert = StartCaCert
  /\ alive = TRUE
  /\ xs = <<>>
  /\ disk = NoDisk
  /\ calls = <<>>
  /\ wire = NoWire
  /\ proxyPort = DefaultProxyPort
  /\ connectedDevices = {}
  /\ cleanup = NoCleanup
  /\ attached = {}
  /\ httpProxy = [d \in Devices |-> ProxyOff]
  /\ proxyState = EmptyMap
  /\ toggles = <<>>
  /\ currentLogStreamer = 0
  /\ streamers = <<>>
  /\ sockets = {1} /\ connections = 1 /\ proxyListeners = AddListeners(NoListeners)
  /\ CliProxy
  /\ tls = NoTls

NextLogs ==
  \/ \E k \in sockets, pkg \in BOOLEAN : StartLogs(k, pkg)
  \/ \E s \in DOMAIN streamers : LogcatCleared(s)
  \/ \E s \in DOMAIN streamers, r \in BOOLEAN : PidofReturns(s, r)
  \/ \E s \in DOMAIN streamers : PollTick(s)
  \/ \E s \in DOMAIN streamers, r \in BOOLEAN : PollPidofReturns(s, r)
  \/ \E k \in sockets : StopLogs(k)
  \/ \E k \in sockets : Disconnect(k)

SpecLogs == InitLogs /\ [][NextLogs]_vars

\* Several dashboards: sockets connect and disconnect, each with its own
\* handlers on the one currentLogStreamer and its own listeners on the proxy.
InitSockets ==
  /\ server = "listening"
  /\ requestId = 0
  /\ caCert = StartCaCert
  /\ alive = TRUE
  /\ xs = <<>>
  /\ disk = NoDisk
  /\ calls = <<>>
  /\ wire = NoWire
  /\ proxyPort = DefaultProxyPort
  /\ connectedDevices = {}
  /\ cleanup = NoCleanup
  /\ attached = {}
  /\ httpProxy = [d \in Devices |-> ProxyOff]
  /\ proxyState = EmptyMap
  /\ toggles = <<>>
  /\ currentLogStreamer = 0
  /\ streamers = <<>>
  /\ NoSockets
  /\ CliProxy
  /\ tls = NoTls

NextSockets ==
  \/ Connection
  \/ \E k \in sockets, pkg \in BOOLEAN : StartLogs(k, pkg)
  \/ \E s \in DOMAIN streamers : LogcatCleared(s)
  \/ \E s \in DOMAIN streamers, r \in BOOLEAN : PidofReturns(s, r)
  \/ \E k \in sockets : StopLogs(k)
  \/ \E k \in sockets : Disconnect(k)

SpecSockets == InitSockets /\ [][NextSockets]_vars

\* ---------------------------------------------------------------------
\* The module-level proxyInstance: startProxy, getProxyInstance, stopProxy.

\* ProxyServer objects created in one run
MaxInstances == 4

\* the instances whose http.Server is bound to a port
ListeningInstances == {i \in DOMAIN instances : instances[i].listening}

\* startProxy(port): a new ProxyServer becomes the proxyInstance and its
\* start() binds the port; the bind fails (the promise rejects) when another
\* program or an instance of this process is listening on the port
StartProxy(port, taken) ==
  /\ Len(instances) < MaxInstances
  /\ LET bound == /\ ~taken
                  /\ \A i \in ListeningInstances : instances[i].port # port
     IN  instances' = Append(instances, [port |-> port, listening |-> bound])
  /\ proxyInstance' = Len(instances) + 1
  /\ UNCHANGED <<proxyVars, dashVars, wire, currentLogStreamer, streamers, sockVars>>

\* stopProxy(): proxyInstance?.stop(), which closes the instance's server,
\* and proxyInstance = null
StopProxy ==
  /\ instances' = IF proxyInstance # 0
                    THEN [instances EXCEPT ![proxyInstance].listening = FALSE]
                    ELSE instances
  /\ proxyInstance' = 0
  /\ UNCHANGED <<proxyVars, dashVars, wire, currentLogStreamer, streamers, sockVars>>

\* getProxyInstance()
GetProxyInstance == proxyInstance

InitInstances ==
  /\ server = "null"
  /\ requestId = 0
  /\ caCert = NULL
  /\ alive = TRUE
  /\ xs = <<>>
  /\ disk = NoDisk
  /\ calls = <<>>
  /\ OthersOff

NextInstances ==
  \/ \E port \in ProxyPorts, taken \in BOOLEAN : StartProxy(port, taken)
  \/ StopProxy

SpecInstances == InitInstances /\ [][NextInstances]_vars

\* ---------------------------------------------------------------- liveness
\* The upstream of exchange c settles: its dial completes or fails, its
\* response head arrives, its transfer completes or fails.
UpstreamSettles(c) ==
  /\ c \in DOMAIN xs
  /\ \/ \E st \in Statuses : ProxyResHead(c, st)
     \/ ProxyResEnd(c)
     \/ ProxyReqError(c)
     \/ TunnelConnected(c)
     \/ xs[c].srv \in {"connecting", "connectingEnd"} /\ ServerSocketError(c)

\* the same for the upstream request of a decrypted exchange
ChildSettles(k) ==
  /\ k \in DOMAIN xs
  /\ \/ \E st \in Statuses : ChildResEnd(k, st)
     \/ ChildReqError(k)

\* Spec and SpecMitm under the assumption that every upstream dial and
\* transfer eventually completes or fails.  Nothing is assumed of clients.
LiveSpec == Spec /\ \A c \in 1..MaxReq : WF_vars(UpstreamSettles(c))

LiveSpecMitm ==
  /\ SpecMitm
  /\ \A c \in 1..MaxReq : WF_vars(UpstreamSettles(c)) /\ WF_vars(ChildSettles(c))

\* SpecTunnel under the same assumption on the upstream.  A peer is not
\* assumed to ever answer a FIN.
LiveSpecTunnel == SpecTunnel /\ \A c \in 1..MaxReq : WF_vars(UpstreamSettles(c))

\* ---------------------------------------------------------------- properties
Connects == {c \in DOMAIN xs : xs[c].kind = "connect"}
Https == {c \in DOMAIN xs : xs[c].kind = "http"}

Established(x) == Has(x.trace, "w200")
Tunneling(x) == Has(x.trace, "pipe")
TlsTerminated(x) == Has(x.trace, "tls")
Closed(x) == x.cli # "open"
IssuanceFailed(x) == Has(x.trace, "certFail")
MitmFailed(x) == Has(x.trace, "certFail") \/ Has(x.trace, "tlsFail")

\* C1: for every exchange id, the request event bearing that id is emitted
\* before any response event or error event bearing the same id.
C1_RequestFirst ==
  \A c \in DOMAIN xs :
    /\ After(xs[c].ev, "response", "request")
    /\ After(xs[c].ev, "error", "request")

C1_Witness ==
  \E c, k \in DOMAIN xs :
    /\ xs[c].kind = "connect" /\ Has(xs[c].ev, "response")
    /\ xs[k].kind = "child" /\ Has(xs[k].ev, "error")

\* C2: the ids assigned by handleRequest, handleConnect and
\* handleHttpsRequest have strictly increasing numeric suffixes in order of
\* assignment, so no two exchanges receive the same id.
C2_IdsIncrease ==
  \A i, j \in DOMAIN xs : i < j => xs[i].id < xs[j].id

C2_Witness ==
  \E i, j \in DOMAIN xs : i < j /\ xs[i].kind = "connect" /\ xs[j].kind = "child"

\* C3: no per-connection failure terminates the proxy: no handler raises an
\* uncaught exception and the process does not exit.
C3_NeverExits == alive

\* C4: a plain HTTP exchange whose upstream connection or transfer fails
\* (an error event with its id is emitted) has replied 502 'Proxy Error' to
\* the client and has no response.
C4_Reply502 ==
  \A c \in Https :
    Has(xs[c].ev, "error") =>
      /\ Has(xs[c].trace, "502") /\ Has(xs[c].trace, "Proxy Error")
      /\ xs[c].response = NULL /\ ~Has(xs[c].ev, "response")

\* C5: a plain HTTP request whose URL cannot be parsed is answered 400
\* 'Invalid URL' and nothing else, no upstream request is made for it, and
\* its response is never set.
C5_InvalidUrl ==
  \A c \in Https :
    (Has(xs[c].ev, "request") /\ ~URLParses(xs[c].url)) =>
      /\ xs[c].trace = <<"400", "Invalid URL">>
      /\ xs[c].upstream = NoUpstream
      /\ xs[c].response = NULL /\ ~Has(xs[c].ev, "response")

C5_Witness ==
  \E c \in Https : xs[c].pc = "rejected" /\ xs[c].body > 0

C7_Single200 ==
  \A c \in Connects :
    /\ Count(xs[c].trace, "w200") <= 1
    /\ After(xs[c].trace, "head", "w200")
    /\ (xs[c].c2s > 0 \/ xs[c].s2c > 0) => Established(xs[c])

C9_IssuanceFallback ==
  \A c \in Connects :
    (caCert # NULL /\ IssuanceFailed(xs[c])) =>
      /\ xs[c].pc = "tunnel" /\ Has(xs[c].trace, "dial")
      /\ Has(xs[c].ev, "error") => Has(xs[c].trace, "srvErr")
      /\ Has(xs[c].trace, "connected") =>
           /\ Count(xs[c].trace, "w200") = 1
           /\ Tunneling(xs[c])
           /\ xs[c].response = "tunnel" /\ Has(xs[c].ev, "response")
      /\ Closed(xs[c]) =>
           \E t \in {"srvErr", "cliErr", "srvEnd", "cliEnd"} : Has(xs[c].trace, t)

C9_Witness ==
  \E c \in Connects :
    /\ caCert # NULL /\ IssuanceFailed(xs[c])
    /\ xs[c].c2s > 0
    /\ xs[c].ev = <<"request", "response">>

\* C10: MITM is off by default: after start() caCert is null, every CONNECT
\* is handled by handleHttpsTunnel, handleHttpsWithMitm and generateHostCert
\* are never invoked and no decrypted child exchange exists.
C10_MitmOff ==
  /\ caCert = NULL
  /\ disk = NoDisk /\ calls = <<>>
  /\ \A c \in DOMAIN xs : xs[c].kind # "child"
  /\ \A c \in Connects :
       /\ xs[c].pc = "tunnel"
       /\ \A t \in {"cert", "certFail", "tlsFail", "tls"} : ~Has(xs[c].trace, t)

C10_Witness ==
  \E c \in Connects :
    /\ server = "listening"
    /\ xs[c].response = "tunnel" /\ xs[c].s2c > 0

\* C11 as stated: while the proxy is running getProxyCACertPath() returns
\* the path of ca.crt, and GET /api/ca-cert serves it.
C11_PathExposed ==
  Running => (GetProxyCACertPath = CACert /\ CaCertRoute.status = 200)

\* C11 amended: while the proxy is running getProxyCACertPath() returns the
\* path of ca.crt exactly when the proxy holds the root CA, which is when
\* CONNECT requests are handled with MITM; GET /api/ca-cert then serves
\* that file, which exists.  With the root CA not loaded it returns null and
\* GET /api/ca-cert answers 404.
C11_PathWhenCaLoaded ==
  Running =>
    /\ caCert = NULL =>
         /\ GetProxyCACertPath = NoPath
         /\ CaCertRoute = [status |-> 404, download |-> NoPath]
         /\ \A c \in Connects : ~Has(xs[c].trace, "cert") /\ ~MitmFailed(xs[c])
    /\ caCert # NULL =>
         /\ GetProxyCACertPath = CACert
         /\ CaCertRoute = [status |-> 200, download |-> CACert]
         /\ Exists(disk, CACert)
         /\ \A c \in Connects : Has(xs[c].trace, "cert") \/ MitmFailed(xs[c])

C11_Witness ==
  /\ Running /\ caCert # NULL /\ CaCertRoute.download = CACert
  /\ \E c \in Connects : TlsTerminated(xs[c])

\* C12: in every step and for every exchange, a response that is set stays
\* as it is, a response is set exactly when a response event was emitted
\* with the exchange's id, and at most one response event is emitted with it.
C12_ResponseOnce ==
  [][\A c \in DOMAIN xs :
       /\ xs[c].response # NULL => xs'[c].response = xs[c].response
       /\ Count(xs'[c].ev, "response") <= 1
       /\ (xs'[c].response # NULL) <=> Has(xs'[c].ev, "response")]_vars

C12_Witness ==
  \E c, d \in DOMAIN xs :
    /\ xs[c].kind = "connect" /\ xs[c].response = "tunnel"
    /\ xs[c].ev = <<"request", "response", "error">>
    /\ xs[d].kind = "http" /\ xs[d].response = "upstream"
    /\ Has(xs[d].trace, "chunk")

\* C13: every exchange for which a request event was emitted is eventually
\* completed by a response event or an error event bearing its id.
C13_Completed ==
  \A c \in 1..MaxReq :
    (c \in DOMAIN xs /\ Has(xs[c].ev, "request"))
      ~> (c \in DOMAIN xs /\ (Has(xs[c].ev, "response") \/ Has(xs[c].ev, "error")))

\* the proxy has the whole request of exchange x
Accepted(x) == x.kind \in {"connect", "child"} \/ Has(x.ev, "request")

\* the client of exchange x has received a status line for it, or its
\* connection is closed (by the proxy, or with the process)
Answered(x) ==
  \/ ~alive
  \/ x.kind = "http" /\ \E t \in {"status", "400", "502"} : Has(x.trace, t)
  \/ x.kind = "connect" /\ (Has(x.trace, "w200") \/ x.cli # "open")
  \/ x.kind = "child" /\ (x.pc = "done" \/ xs[x.parent].cli # "open")

\* C14: every client request the proxy accepts is eventually answered: the
\* client receives a status line or has its connection closed.
C14_Answered ==
  \A c \in 1..MaxReq :
    (c \in DOMAIN xs /\ Accepted(xs[c])) ~> (c \in DOMAIN xs /\ Answered(xs[c]))

\* the dial of the tunnel of exchange x failed: serverSocket emitted 'error'
\* before the connect callback ran
DialFailed(x) == Has(x.trace, "srvErr") /\ ~Has(x.trace, "connected")

SocketFailed(x) ==
  \E t \in {"srvErr", "cliErr", "srvEnd", "cliEnd"} : Has(x.trace, t)

\* neither socket of the tunnel of x is open or half-open
BothClosed(x) ==
  x.srv \in {"closed", "destroyed"} /\ x.cli \in {"closed", "destroyed"}

\* C16: in tunnel mode, after a socket-level error or EOF on either socket
\* both sockets end up closed, and no connection is dialled twice.
C16_BothClosed ==
  /\ \A c \in 1..MaxReq :
       (c \in DOMAIN xs /\ SocketFailed(xs[c]))
         ~> (c \in DOMAIN xs /\ BothClosed(xs[c]))
  /\ [](\A c \in Connects : Count(xs[c].trace, "dial") <= 1)

\* C17: whenever both ca.key and ca.crt exist, the certificate on disk was
\* created from the key on disk.
C17_PairMatches ==
  (Exists(disk, CAKey) /\ Exists(disk, CACert)) => disk[CACert] = disk[CAKey]

CaCalls == {i \in DOMAIN calls : calls[i].fn = "generateCACert"}

\* C18: once a call of generateCACert has returned, every later call
\* returns the same paths, runs no openssl step, and ca.key and ca.crt keep
\* the content they had when the first call returned.
C18_Idempotent ==
  \A i \in CaCalls :
    calls[i].ok =>
      /\ Content(disk, CAKey) = calls[i].key
      /\ Content(disk, CACert) = calls[i].cert
      /\ \A j \in CaCalls :
           j > i => /\ calls[j].ok /\ calls[j].steps = <<>>
                    /\ calls[j].paths = calls[i].paths
                    /\ calls[j].key = calls[i].key
                    /\ calls[j].cert = calls[i].cert

C18_Witness ==
  \E i, j \in CaCalls :
    /\ i < j /\ calls[i].ok /\ calls[i].steps = <<"genrsa", "req">>
    /\ calls[j].ok
    /\ \E k \in DOMAIN calls : i < k /\ k < j /\ calls[k].fn = "generateHostCert"

HostCalls(h) ==
  {i \in DOMAIN calls : calls[i].fn = "generateHostCert" /\ calls[i].host = h}

\* C19: once a call of generateHostCert(h) has returned, every later call
\* for h returns the same paths, runs no openssl step, and <h>.key and
\* <h>.crt keep the content they had when the first call returned.
C19_LeafReuse ==
  \A h \in CertHosts : \A i \in HostCalls(h) :
    calls[i].ok =>
      /\ Content(disk, HostFile(h, "key")) = calls[i].key
      /\ Content(disk, HostFile(h, "crt")) = calls[i].cert
      /\ \A j \in HostCalls(h) :
           j > i => /\ calls[j].ok /\ calls[j].steps = <<>>
                    /\ calls[j].paths = calls[i].paths
                    /\ calls[j].key = calls[i].key
                    /\ calls[j].cert = calls[i].cert

C19_Witness ==
  \E h \in CertHosts : \E i, j \in HostCalls(h) :
    /\ i < j /\ calls[i].ok /\ Has(calls[i].steps, "sign")
    /\ calls[j].ok /\ calls[j].paths = [key |-> <<h, "key">>, cert |-> <<h, "crt">>]

\* C20: for every hostname the key and certificate are generated once (at
\* most one call runs the signing step to its end), and no connection is
\* handed, and then reads, an empty or partly written <host>.key or
\* <host>.crt.  Each call is one step: execSync blocks the only thread, so
\* no two generations are in progress together.
C20_Serialized ==
  \A h \in Hosts :
    /\ Cardinality({i \in HostCalls(h) : Has(calls[i].steps, "unlink")}) <= 1
    /\ \A i \in HostCalls(h) :
         calls[i].ok => (calls[i].key # 0 /\ calls[i].cert # 0)

\* the call that generated and signed the pair which call i for h returns
SigningCalls(h, i) ==
  {j \in HostCalls(h) : j <= i /\ Has(calls[j].steps, "unlink")}

\* C21: every pair that generateHostCert(h) returns, generated by this call
\* or taken from the directory, was signed by the root certificate that is
\* in ca.crt when the call returns, also when ca.key and ca.crt were removed
\* and generated again in between.
C21_SignedByCurrentRoot ==
  \A h \in CertHosts : \A i \in HostCalls(h) :
    (calls[i].ok /\ calls[i].ca # 0) =>
      \A j \in SigningCalls(h, i) : calls[j].ca = calls[i].ca

\* C22: while a leaf certificate is being generated for one connection,
\* the proxy can accept a new connection, and a connection that has a
\* pending event can make progress.
C22_NotBlocked ==
  (Running /\ ~ThreadFree /\ Len(xs) < MaxReq) => ENABLED AcceptsConnection

\* C23 (the body): the bytes written to the upstream are the bytes of the
\* request body the client sent.
C23_BodyForwarded ==
  wire.pc = "sent" => wire.sent = Flatten(wire.chunks)

\* C24 as stated: of two ids of one ProxyServer, the one issued first is
\* the smaller string.
C24_LexOrder ==
  \A i, j \in DOMAIN xs :
    i < j => LexLess(IdString(xs[i].id), IdString(xs[j].id))

\* C24: of two ids of one ProxyServer, the one issued first is the shorter
\* string or, when they have the same length, the smaller string: the ids
\* are ordered as their numeric suffixes.
C24_LengthThenLexOrder ==
  \A i, j \in DOMAIN xs :
    i < j =>
      LET a == IdString(xs[i].id)
          b == IdString(xs[j].id)
      IN  Len(a) < Len(b) \/ (Len(a) = Len(b) /\ LexLess(a, b))

C24_Witness ==
  \E i, j \in DOMAIN xs :
    /\ i < j /\ xs[i].kind = "http" /\ xs[j].kind = "connect"
    /\ IdString(xs[i].id) = <<114, 101, 113, 95, 57>>
    /\ IdString(xs[j].id) = <<114, 101, 113, 95, 49, 48>>

\* C25: when a toggle-proxy with enabled = true succeeds ('proxy-status' is
\* sent) and nothing has turned the device's proxy off meanwhile, the
\* device's global http_proxy is the local IP with the port the proxy
\* listens on.
C25_PointsAtProxy ==
  [][\A i \in DOMAIN toggles :
       (/\ toggles[i].enabled
        /\ toggles[i].pc = "exited0" /\ toggles'[i].pc = "status"
        /\ httpProxy[toggles[i].deviceId] # ProxyOff)
         => httpProxy'[toggles[i].deviceId] = [host |-> LocalIP, port |-> proxyPort]
    ]_vars

\* an adb command of a toggle-proxy for d has not run yet
ToggleInFlight(d) ==
  \E i \in DOMAIN toggles : toggles[i].deviceId = d /\ toggles[i].pc = "adb"

\* C26: when cleanup has printed 'Proxy removed. Safe to disconnect USB!'
\* and exited, every attached device has its global http_proxy turned off
\* (a device whose toggle-proxy command is still to run is left aside).
C26_ProxyRemoved ==
  cleanup.pc = "exited" =>
    \A d \in attached : ~ToggleInFlight(d) => httpProxy[d] = ProxyOff

\* C27: on a tunnelled connection the head bytes of the CONNECT are written
\* to the upstream socket after the dial has completed and before the
\* client socket is piped to the upstream, and a client chunk is relayed
\* only once both have happened.
C27_HeadFirst ==
  \A c \in Connects :
    /\ After(xs[c].trace, "head", "connected")
    /\ After(xs[c].trace, "pipe", "head")
    /\ xs[c].c2s > 0 => (Has(xs[c].trace, "head") /\ Has(xs[c].trace, "pipe"))

C27_Witness ==
  \E c \in Connects :
    /\ xs[c].c2s > 0 /\ Has(xs[c].trace, "head")
    /\ xs[c].srv = "open" /\ xs[c].cli = "open"

\* the call of generateHostCert that returned last, if the last call is one
LastHostCall ==
  IF calls # <<>> /\ calls[Len(calls)].fn = "generateHostCert"
    THEN {calls[Len(calls)]} ELSE {}

\* C28: when generateHostCert(h) has returned normally, <h>.key and <h>.crt
\* exist and neither <h>.csr nor <h>.ext does.
C28_NoIntermediates ==
  \A r \in LastHostCall :
    r.ok => /\ Exists(disk, HostFile(r.host, "key"))
            /\ Exists(disk, HostFile(r.host, "crt"))
            /\ ~Exists(disk, HostFile(r.host, "csr"))
            /\ ~Exists(disk, HostFile(r.host, "ext"))

\* C29: a call of generateHostCert(h) that throws leaves the certificate
\* directory as it was before the call (so no <h>.key, <h>.csr or <h>.ext
\* of the failed attempt remains).
C29_FailureLeavesNothing ==
  [][\A h \in CertHosts, f \in FailPoints :
       (CallGenerateHostCert(h, f) /\ ~GenerateHostCert(disk, h, f).ok)
         => disk' = disk
    ]_vars

\* C30: every adb logcat process that is alive and every poll timer that is
\* set belongs to the streamer currentLogStreamer refers to, and at most one
\* process is alive.
C30_OwnedByCurrent ==
  /\ \A s \in DOMAIN streamers :
       (streamers[s].spawned > 0 \/ streamers[s].pollInterval)
         => s = currentLogStreamer
  /\ Cardinality(Units(Len(streamers), LAMBDA s : streamers[s].spawned, MaxTicks + 1)) <= 1

\* C31: a streamer on which stop() was called spawns no adb logcat process,
\* sets no poll timer and emits no 'log' entry afterwards.
C31_StoppedStaysQuiet ==
  [][\A s \in DOMAIN streamers :
       streamers[s].stopped =>
         /\ streamers'[s].spawned <= streamers[s].spawned
         /\ streamers'[s].pollInterval => streamers[s].pollInterval
         /\ streamers'[s].log = streamers[s].log
    ]_vars

\* C32: a streamer that polls for its app spawns adb logcat at most once and
\* emits at most one 'started' entry.
C32_SpawnsOnce ==
  \A s \in DOMAIN streamers :
    (streamers[s].pkg /\ ~streamers[s].stopped) =>
      /\ streamers[s].spawned <= 1
      /\ Count(streamers[s].log, "INFO") <= 1

\* C33: a stop-logs or a disconnect of socket k stops no streamer that
\* another socket started and that is still connected.
C33_StopsOwnStream ==
  [][\A k \in sockets : \A s \in DOMAIN streamers :
       (/\ StopLogs(k) \/ Disconnect(k)
        /\ ~streamers[s].stopped /\ streamers'[s].stopped)
         => streamers[s].socket = k \/ streamers[s].socket \notin sockets
    ]_vars

\* C34: the dashboard server has as many 'request' listeners and as many
\* 'response' listeners on the proxy as there are connected sockets.
C34_ListenersMatchSockets ==
  /\ proxyListeners.request = Cardinality(sockets)
  /\ proxyListeners.response = Cardinality(sockets)

\* a toggle-proxy handler for d has not finished
TogglePending(d) ==
  \E i \in DOMAIN toggles :
    toggles[i].deviceId = d /\ toggles[i].pc \in {"adb", "exited0", "exited1"}

\* C35: while cleanup is not running and no toggle-proxy for a device is
\* pending, what get-proxy-status reports for the device is whether its
\* global http_proxy is set.
C35_StatusMatchesDevice ==
  \A d \in Devices :
    (cleanup.pc = "ready" /\ ~TogglePending(d))
      => (GetProxyStatus(d) <=> httpProxy[d] # ProxyOff)

\* C36: a toggle-proxy handler emits 'proxy-loading' {true} first; once it
\* has resumed it has emitted exactly one of 'proxy-status' and 'proxy-error'
\* next and 'proxy-loading' {false} last; the step that resumes it after a
\* failed adb leaves proxyState as it was and emits no 'proxy-status'.
C36_LoadingBrackets ==
  [][\A i \in DOMAIN toggles' :
       LET e == toggles'[i].emitted IN
         /\ e[1] = "proxy-loading:true"
         /\ IF toggles'[i].pc \in {"status", "error"}
              THEN /\ Len(e) = 3
                   /\ e[2] \in {"proxy-status", "proxy-error"}
                   /\ e[3] = "proxy-loading:false"
              ELSE Len(e) = 1
         /\ (i \in DOMAIN toggles /\ toggles[i].pc = "exited1"
               /\ toggles'[i] # toggles[i])
              => /\ proxyState' = proxyState
                 /\ e = <<"proxy-loading:true", "proxy-error", "proxy-loading:false">>
    ]_vars

\* a handler whose adb failed has finished, and one whose adb succeeded too
C36_Witness ==
  \E i, j \in DOMAIN toggles :
    /\ toggles[i].emitted = <<"proxy-loading:true", "proxy-error", "proxy-loading:false">>
    /\ toggles[j].emitted = <<"proxy-loading:true", "proxy-status", "proxy-loading:false">>

\* C37: at most one ProxyServer is listening, getProxyInstance() is not
\* null exactly when some instance is listening, every listening instance is
\* the one getProxyInstance() returns and the instance it returns is
\* listening.
C37_OneListeningInstance ==
  /\ Cardinality(ListeningInstances) <= 1
  /\ GetProxyInstance # 0 <=> ListeningInstances # {}
  /\ \A i \in ListeningInstances : i = GetProxyInstance
  /\ GetProxyInstance # 0 => instances[GetProxyInstance].listening

\* the 'data' events that held bytes of request r
DataOf(r) ==
  {i \in DOMAIN tls.data :
     \E j \in DOMAIN tls.data[i].chunk : tls.data[i].chunk[j].req = r}

\* every byte of request r has reached the 'data' listener
Delivered(r) ==
  /\ r \in 1..tls.sent
  /\ \A j \in DOMAIN tls.pending : tls.pending[j].req # r

\* C38: for every request the client wrote on the MITM session and whose
\* bytes have all arrived, exactly one child exchange was created, from a
\* chunk that holds that request and no other.
C38_OneChildPerRequest ==
  \A r \in 1..tls.sent :
    Delivered(r) =>
      /\ Cardinality(DataOf(r)) = 1
      /\ \A i \in DataOf(r) :
           \A j \in DOMAIN tls.data[i].chunk : tls.data[i].chunk[j].req = r

\* the child exchange k was created from a chunk that holds one whole
\* request and nothing else
HoldsOneRequest(k) ==
  \E i \in DOMAIN tls.data : \E r \in 1..tls.sent :
    /\ tls.data[i].child = k
    /\ Delivered(r) /\ DataOf(r) = {i}
    /\ \A j \in DOMAIN tls.data[i].chunk : tls.data[i].chunk[j].req = r

\* C39: the response to a request is written to the TLS session only while
\* no response has been written there for a request that arrived later on
\* the session (each request having arrived as one chunk of its own).
C39_ResponsesInArrivalOrder ==
  [][\A j \in DOMAIN xs :
       (/\ xs[j].kind = "child" /\ xs[j].pc = "upstream" /\ xs'[j].pc = "done"
        /\ HoldsOneRequest(j))
         => \A k \in DOMAIN xs :
              (/\ k > j /\ xs[k].kind = "child" /\ xs[k].parent = xs[j].parent
               /\ HoldsOneRequest(k))
                => xs[k].pc # "done" ]_vars

====
